---------------------------- MODULE Spec2Model ----------------------------
(***************************************************************************)
(* A model of the multifil half-sarcomere: the tropomyosin regulation      *)
(* chain (tm.py), the thick filament mechanics (mf.py) and the             *)
(* half-sarcomere orchestrator (hs.py).                                    *)
(*                                                                         *)
(* Units.  Lengths are integers in 1e-6 nm, forces in 1e-6 pN, so that the *)
(* thick filament spring constant keeps its source value (2020 pN/nm).     *)
(* Probabilities and random draws are in 1/1000.                           *)
(***************************************************************************)
EXTENDS Integers, Sequences, FiniteSets, TLC

(***************************************************************************)
(* Bounds of the model                                                     *)
(***************************************************************************)
\* number of tropomyosin sites on the modelled chain
NSites == 2
\* significant bits of a floating-point number (53 in the code's doubles)
MantBits == 11
\* crowns (axial nodes) of a thick filament (n_cr is 60 in the code)
NCrowns == 3
\* the largest time_steps a caller passes to hs.run
MaxSteps == 2

(***************************************************************************)
(* State                                                                   *)
(***************************************************************************)
VARIABLES
    tmState,      \* TmSite._state of every site of one Tropomyosin chain
    bsState,      \* binding_site.state of every site (0 unbound, 1 bound)
    bsTension,    \* binding_site.tension of every site (pN)
    tmOp,         \* history: the last operation on the chain
    tmResult,     \* history: what it returned ("raised" for an exception)
    tmHadLocked,  \* history: some site was in state 3 over a bound binding
                  \* site when the last operation was called
    snapshot      \* the tropomyosin dict the last operation was given

VARIABLES
    initialLs,    \* hs._initial_lattice_spacing
    initialZ,     \* hs._initial_z_line
    poissonRatio, \* hs.poisson_ratio, in halves (1 is the ratio 0.5)
    latticeSpacing, \* hs._lattice_spacing
    zLine,        \* hs._z_line
    lsOp          \* history: the last assignment to the two

lsVars == <<initialLs, initialZ, poissonRatio, latticeSpacing, zLine, lsOp>>

VARIABLES
    axial,        \* ThickFilament.axial of the four thick filaments
    crownForce,   \* sum of the cross-bridges' axialforce() at every crown
    titinForce,   \* _normed_total_titin_force() of every thick filament
    thinResidual  \* the force at the thin filaments' most loaded node

mechVars == <<axial, crownForce, titinForce, thinResidual>>

VARIABLES
    timeDependence,  \* hs.time_dependence
    currentTimestep, \* hs._current_timestep
    pc,           \* where hs.run stands
    runN,         \* time_steps of the run
    runI,         \* the loop index i of the run
    output,       \* the list the run collects
    status,       \* the status the run returned (-1 before it returns)
    runFail,      \* history: what ended the run early, and in which stage
    failStep,     \* history: the step (1-based) it ended in
    stepLog       \* history: what the current timestep has done, in order

runVars == <<timeDependence, currentTimestep, pc, runN, runI, output, status,
             runFail, failStep, stepLog>>

VARIABLES
    detSeed,      \* the seed the caller gave np.random before construction
    rng,          \* np.random's generator state in each of two executions
    detBuilt,     \* whether the execution has constructed its hs
    detStep,      \* timesteps the execution has taken
    detTraj       \* the chain states and outcomes of its timesteps, in order

detVars == <<detSeed, rng, detBuilt, detStep, detTraj>>

VARIABLES
    fnArg,        \* the argument of a call of a function without side effects
    fnResult      \* what the call returned ([fn |-> "none"] before it)

fnVars == <<fnArg, fnResult>>

tmVars == <<tmState, bsState, bsTension, tmOp, tmResult, tmHadLocked,
           snapshot>>

Sites == 1..NSites

vars == <<tmVars, lsVars, mechVars, runVars, detVars, fnVars>>

\* what an operation on the tropomyosin chain leaves alone
notTm == <<lsVars, mechVars, runVars, detVars, fnVars>>
\* what an assignment to the lattice spacing or z-line leaves alone
notLs == <<tmVars, mechVars, runVars, detVars, fnVars>>

(***************************************************************************)
(* tm.py: TmSite                                                           *)
(***************************************************************************)
\* kinetic constants, tm.py TmSite.__init__ (rates in 1e-3 per ms)
K2 == 10
K3 == 10
k_23 == 10
k_34 == 10
coop == 100

\* binding_site.axial_location: the binding sites sit 25 nm apart
AxialLocation(i) == (i - 1) * 25

Abs(x) == IF x < 0 THEN -x ELSE x

\* TmSite.span: 0.5 * base * (1 - tanh(steep * (f50 + f))) with base 62,
\* steep 1, f50 -8, rounded up to whole nm (locations are whole nm, and the
\* span is only compared with "<"): 61.99999 at no tension, 31 at 8 pN,
\* 0.000007 at 16 pN
SpanOf(f) == CASE f = 0 -> 62 [] f = 8 -> 31 [] f = 16 -> 1

Span(tens, i) == SpanOf(tens[i])

\* np.nonzero(np.abs(locs - loc) < span)
NearInds(tens, i) ==
    {j \in Sites : Abs(AxialLocation(j) - AxialLocation(i)) < Span(tens, i)}

SubjectToCooperativity(st, tens, i) ==
    \E j \in NearInds(tens, i) : st[j] = 2

\* TmSite._prob: 1 - exp(-rate * timestep) at a timestep of 1 ms, in 1/1000
Prob(rate) ==
    CASE rate = 1 -> 1
      [] rate = 10 -> 10
      [] rate = 1000 -> 632

R23(st, tens, i) ==
    k_23 * (IF SubjectToCooperativity(st, tens, i) THEN coop ELSE 1)

R32 == k_23 \div K2

R34(st, tens, i) ==
    k_34 * (IF SubjectToCooperativity(st, tens, i) THEN coop ELSE 1)

R43 == k_34 \div K3

\* The probabilities that depend on the lattice's calcium and concentrations
\* (_r12, _r14, _r21, _r41) are inputs: ca is a record of the four
CaLevels ==
    { [p12 |-> 0,    p14 |-> 0,    p21 |-> 1000, p41 |-> 1000],
      [p12 |-> 1000, p14 |-> 0,    p21 |-> 10,   p41 |-> 10],
      [p12 |-> 1000, p14 |-> 1000, p21 |-> 0,    p41 |-> 0] }

\* np.random.random() in 1/1000
RandDraws == {0, 500, 999}

\* a variant that tests the backward range first
ForwardBackwardBackFirst(forward_p, backward_p, rand) ==
    IF rand > 1000 - backward_p THEN "backward"
    ELSE IF rand < forward_p THEN "forward"
    ELSE "none"

ForwardBackward(forward_p, backward_p, rand) ==
    IF rand < forward_p THEN "forward"
    ELSE IF rand > 1000 - backward_p THEN "backward"
    ELSE "none"

\* the forward and backward probabilities TmSite.transition selects
Rates(st, tens, i, ca) ==
    CASE st[i] = 0 -> <<ca.p12, ca.p14>>
      [] st[i] = 1 -> <<Prob(R23(st, tens, i)), ca.p21>>
      [] st[i] = 2 -> <<Prob(R34(st, tens, i)), Prob(R32)>>
      [] st[i] = 3 -> <<ca.p41, Prob(R43)>>
      [] OTHER -> <<0, 0>>

\* RingStep without the wrap of the forward step
RingStepNoWrap(s, word) ==
    CASE word = "forward" -> s + 1
      [] word = "backward" -> (s + 3) % 4
      [] word = "none" -> s

\* the ring step of TmSite.transition
RingStep(s, word) ==
    CASE word = "forward" -> (s + 1) % 4
      [] word = "backward" -> (s + 3) % 4
      [] word = "none" -> s

\* the state skip of TmSite.transition: {"forward": 3, "backward": 1}[word]
\* has no entry for "none"
SkipState(word) ==
    CASE word = "forward" -> 3
      [] word = "backward" -> 1
      [] OTHER -> -1

\* SiteTransition without the early return of a bound state-3 site
SiteTransitionUnlocked(st, bs, tens, i, ca, rand) ==
    LET fb == Rates(st, tens, i, ca)
        word == ForwardBackward(fb[1], fb[2], rand)
        ringed == RingStep(st[i], word)
    IN IF ringed = 2
       THEN IF SkipState(word) = -1
            THEN [st |-> [st EXCEPT ![i] = ringed], ret |-> "raised"]
            ELSE [st |-> [st EXCEPT ![i] = SkipState(word)], ret |-> word]
       ELSE [st |-> [st EXCEPT ![i] = ringed], ret |-> word]

\* TmSite.transition on site i: the new chain state and what the call
\* returns ("locked" for the bare return of a bound state-3 site, "raised"
\* for the KeyError of the state skip)
SiteTransition(st, bs, tens, i, ca, rand) ==
    IF st[i] = 3 /\ bs[i] = 1
    THEN [st |-> st, ret |-> "locked"]
    ELSE LET fb == Rates(st, tens, i, ca)
             word == ForwardBackward(fb[1], fb[2], rand)
             ringed == RingStep(st[i], word)
         IN IF ringed = 2
            THEN IF SkipState(word) = -1
                 THEN [st |-> [st EXCEPT ![i] = ringed], ret |-> "raised"]
                 ELSE [st |-> [st EXCEPT ![i] = SkipState(word)], ret |-> word]
            ELSE [st |-> [st EXCEPT ![i] = ringed], ret |-> word]

(***************************************************************************)
(* tm.py: Tropomyosin                                                      *)
(***************************************************************************)
\* what one state-2 site does to the chain in _spread_activation
SpreadFrom(st, tens, i) ==
    [j \in Sites |->
        IF j \in NearInds(tens, i) /\ st[j] # 2 THEN 1 ELSE st[j]]

RECURSIVE SpreadLoop(_, _, _)
SpreadLoop(st, tens, i) ==
    IF i > NSites THEN st
    ELSE SpreadLoop(IF st[i] = 2 THEN SpreadFrom(st, tens, i) ELSE st,
                    tens, i + 1)

MaxState(st) == CHOOSE m \in 0..3 :
    (\E j \in Sites : st[j] = m) /\ (\A j \in Sites : st[j] <= m)

SpreadActivation(st, tens) ==
    IF MaxState(st) < 2 THEN st ELSE SpreadLoop(st, tens, 1)

\* the per-site pass of Tropomyosin.transition, sites in list order; a
\* site that raises ends the pass
RECURSIVE SitePass(_, _, _, _, _, _, _)
SitePass(st, bs, tens, i, ca, rands, rets) ==
    IF i > NSites THEN [st |-> st, rets |-> rets, raised |-> FALSE]
    ELSE LET r == SiteTransition(st, bs, tens, i, ca, rands[i])
         IN IF r.ret = "raised"
            THEN [st |-> r.st, rets |-> rets, raised |-> TRUE]
            ELSE SitePass(r.st, bs, tens, i + 1, ca, rands,
                          Append(rets, r.ret))

ChainTransition(st, bs, tens, ca, rands) ==
    LET pass == SitePass(st, bs, tens, 1, ca, rands, <<>>)
    IN IF pass.raised
       THEN [st |-> pass.st, ret |-> "raised"]
       ELSE [st |-> SpreadActivation(pass.st, tens), ret |-> "ok"]

\* the address of the live chain, and the address of another chain
TmAddress == <<"tropomyosin", 0, 0>>
OtherAddress == <<"tropomyosin", 0, 1>>

NoSnapshot == [address |-> <<>>, sites |-> <<>>]

\* the site states a snapshot holds
SnapStates == {0, 3}

\* tropomyosin dicts: the address the chain was saved under and the
\* '_state' of its site records, one fewer to one more than the live sites
Snapshots ==
    { [address |-> a, sites |-> ss] :
        a \in {TmAddress, OtherAddress},
        ss \in UNION { [1..n -> SnapStates] : n \in (NSites - 1)..(NSites + 1) } }

\* Tropomyosin.from_dict: the assert on the address, then
\* zip(tmd['sites'], self.sites), which stops at the shorter of the two
TropomyosinFromDict(st, tmd) ==
    IF tmd.address # TmAddress
    THEN [st |-> st, ret |-> "raised"]
    ELSE [st |-> [i \in Sites |->
                    IF i <= Len(tmd.sites) THEN tmd.sites[i] ELSE st[i]],
          ret |-> "ok"]

(***************************************************************************)
(* Floating-point numbers.  A number is an integer count of 2^-FracBits;   *)
(* every arithmetic result is rounded to MantBits significant bits, ties   *)
(* to even, as the doubles of the code are rounded to 53.                  *)
(***************************************************************************)
FracBits == MantBits - 4

RECURSIVE Pow2(_)
Pow2(n) == IF n <= 0 THEN 1 ELSE 2 * Pow2(n - 1)

Unit == Pow2(FracBits)

\* the literal n/d (d a power of two no larger than Unit)
Lit(n, d) == (n * Unit) \div d

RECURSIVE BitLength(_)
BitLength(x) == IF x = 0 THEN 0 ELSE 1 + BitLength(x \div 2)

RoundMagnitude(x) ==
    IF BitLength(x) <= MantBits THEN x
    ELSE LET ulp == Pow2(BitLength(x) - MantBits)
             q == x \div ulp
             r == x % ulp
             up == (2 * r > ulp) \/ (2 * r = ulp /\ q % 2 = 1)
         IN (IF up THEN q + 1 ELSE q) * ulp

Fl(x) == IF x < 0 THEN -RoundMagnitude(-x) ELSE RoundMagnitude(x)

FAdd(a, b) == Fl(a + b)
FSub(a, b) == Fl(a - b)

\* nearest integer to n/d, d > 0, ties away from zero
RoundDiv(n, d) ==
    IF n >= 0 THEN (2 * n + d) \div (2 * d) ELSE -((2 * (-n) + d) \div (2 * d))

FMul(a, b) == Fl(RoundDiv(a * b, Unit))
FDiv(a, b) == Fl(RoundDiv(a * Unit, b))

\* integer square root
ISqrt(x) == CHOOSE r \in 0..(x + 1) : r * r <= x /\ (r + 1) * (r + 1) > x

\* x ** nu for the Poisson ratios of the model (nu in halves)
FPow(x, nu2) ==
    CASE nu2 = 0 -> Unit
      [] nu2 = 2 -> x
      [] nu2 = -2 -> FDiv(Unit, x)
      [] nu2 = 1 -> Fl(ISqrt(x * Unit))

(***************************************************************************)
(* hs.py: lattice spacing and z-line                                       *)
(***************************************************************************)
\* hs.update_ls_from_poisson_ratio: the lattice spacing it assigns
PoissonLs(ls_0, z_0, nu, z) ==
    LET beta == FMul(Lit(1, 2), Lit(9 + 16, 1))
        dz == FSub(z, z_0)
    IN FSub(FMul(FAdd(ls_0, beta), FPow(FDiv(z_0, FAdd(z_0, dz)), nu)), beta)

\* the values a caller passes: lattice spacings (14.0, 15.0 and the
\* spacing one unit in the last place above 13.0), z-lines and Poisson
\* ratios (-1, 0, 0.5, 1)
LsValues == {Lit(14, 1), Lit(15, 1), Lit(13, 1) + 1}
ZValues == {Lit(1250, 1), Lit(2500, 1)}
PoissonRatios == {-2, 0, 1, 2}

\* hs.__init__ (lines 129-141): the initial values are recorded, the lattice
\* spacing is stored and the z-line is assigned through its setter
LsInit ==
    /\ initialLs \in LsValues
    /\ initialZ \in ZValues
    /\ poissonRatio \in PoissonRatios
    /\ zLine = initialZ
    /\ latticeSpacing = PoissonLs(initialLs, initialZ, poissonRatio, initialZ)
    /\ lsOp = "init"

\* hs.lattice_spacing and hs.z_line of the default construction
LsDefault ==
    /\ initialLs = Lit(14, 1)
    /\ initialZ = Lit(1250, 1)
    /\ poissonRatio = 0
    /\ zLine = initialZ
    /\ latticeSpacing = PoissonLs(initialLs, initialZ, poissonRatio, initialZ)
    /\ lsOp = "init"

\* the z_line setter
SetZLine ==
    \E z \in ZValues :
        /\ zLine' = z
        /\ latticeSpacing' = PoissonLs(initialLs, initialZ, poissonRatio, z)
        /\ lsOp' = "z_line"
        /\ UNCHANGED <<initialLs, initialZ, poissonRatio, notLs>>

\* the lattice_spacing setter
SetLatticeSpacing ==
    \E ls \in LsValues :
        /\ latticeSpacing' = ls
        /\ lsOp' = "lattice_spacing"
        /\ UNCHANGED <<initialLs, initialZ, poissonRatio, zLine, notLs>>

LsNext ==
    \/ SetZLine
    \/ SetLatticeSpacing

(***************************************************************************)
(* mf.py: ThickFilament                                                    *)
(***************************************************************************)
Thick == 1..4
Crowns == 1..NCrowns

\* ThickFilament.__init__: lengths in 1e-6 nm, k in pN/nm
bare_zone == 58000000
crown_spacing == 14300000
k == 2020

\* a filament built with no spacing between its crowns
InitialAxialFlat == [n \in Crowns |-> bare_zone]

InitialAxial == [n \in Crowns |-> bare_zone + (n - 1) * crown_spacing]

\* self.rests = np.diff(np.hstack([0, self.axial]))
Rests ==
    [n \in Crowns |->
        InitialAxial[n] - (IF n = 1 THEN 0 ELSE InitialAxial[n - 1])]

\* (dists - self.rests) * self.k of the spring that ends at crown n
SpringForce(ax, n) ==
    ((ax[n] - (IF n = 1 THEN 0 ELSE ax[n - 1])) - Rests[n]) * k

\* ThickFilament._axial_thick_filament_forces: the titin force closes the
\* list of spring forces
AxialThickFilamentForces(ax, tit) ==
    [n \in Crowns |->
        (IF n = NCrowns THEN tit ELSE SpringForce(ax, n + 1))
            - SpringForce(ax, n)]

\* ThickFilament.axialforce
ThickAxialForce(ax, crown, tit) ==
    [n \in Crowns |-> AxialThickFilamentForces(ax, tit)[n] + crown[n]]

\* the damping factor of hs._single_settle, in 1/100
factor_pct == 95

\* a variant that does not double the step of the last node
IsolatedNoDouble(forces) ==
    [n \in Crowns |-> RoundDiv(factor_pct * forces[n], 100 * k)]

\* isolated = factor*forces/self.k; isolated[-1] *= 2
Isolated(forces) ==
    [n \in Crowns |->
        LET d == RoundDiv(factor_pct * forces[n], 100 * k)
        IN IF n = NCrowns THEN 2 * d ELSE d]

RECURSIVE CumSum(_, _)
CumSum(f, n) == IF n = 0 THEN 0 ELSE f[n] + CumSum(f, n - 1)

\* ThickFilament.settle: the new axial locations and the returned forces
ThickSettle(ax, crown, tit) ==
    LET forces == ThickAxialForce(ax, crown, tit)
        isolated == Isolated(forces)
    IN [axial |-> [n \in Crowns |-> ax[n] + CumSum(isolated, n)],
        forces |-> forces]

\* a variant that reads the strain at the tip of the filament instead
EffectiveAxialForceTip(ax) == (ax[NCrowns] - InitialAxial[NCrowns]) * k

\* ThickFilament.effective_axial_force
EffectiveAxialForce(ax) == (ax[1] - bare_zone) * k

(***************************************************************************)
(* hs.py: settle, axial_force, the current_timestep setter                 *)
(***************************************************************************)
Max2(a, b) == IF a >= b THEN a ELSE b

\* np.max(np.abs(forces)) over the crowns of one filament
MaxAbs(forces) ==
    CHOOSE m \in {Abs(forces[n]) : n \in Crowns} :
        \A n \in Crowns : Abs(forces[n]) <= m

\* the largest of a nonempty set of numbers
MaxOf(S) == CHOOSE m \in S : \A x \in S : x <= m

\* hs._single_settle: every thick filament settles, then the thin filaments
\* (whose largest absolute force, thinMax, their settle returns)
SingleSettle(axAll, crownAll, titAll, thinMax) ==
    LET thick == [f \in Thick |-> ThickSettle(axAll[f], crownAll[f], titAll[f])]
    IN [axial |-> [f \in Thick |-> thick[f].axial],
        converge |-> Max2(MaxOf({MaxAbs(thick[f].forces) : f \in Thick}),
                          thinMax)]

\* converge_limit of hs.settle, 0.12 pN
converge_limit == 120000

RECURSIVE SumThick(_, _)
SumThick(g, f) == IF f = 0 THEN 0 ELSE g[f] + SumThick(g, f - 1)

\* hs.axial_force
HsAxialForce(axAll) ==
    SumThick([f \in Thick |-> EffectiveAxialForce(axAll[f])], 4)

\* the residual of the thick filaments at the locations they hold
ThickResidual(axAll, crownAll, titAll) ==
    MaxOf({MaxAbs(ThickAxialForce(axAll[f], crownAll[f], titAll[f])) :
            f \in Thick})

NoFail == [kind |-> "none", stage |-> "none"]

\* time_dependence: which keys are present, and their lists
NoTimeDependence == [hasLs |-> FALSE, ls |-> <<>>, hasZ |-> FALSE, z |-> <<>>]

LsList == [i \in 1..(MaxSteps + 1) |-> IF i % 2 = 0 THEN Lit(15, 1) ELSE Lit(14, 1)]
ZList == [i \in 1..(MaxSteps + 1) |-> IF i = 2 THEN Lit(2500, 1) ELSE Lit(1250, 1)]
ZFlat == [i \in 1..(MaxSteps + 1) |-> Lit(1250, 1)]
ZShort == [i \in 1..MaxSteps |-> Lit(1250, 1)]

TimeDependences ==
    { NoTimeDependence,
      [hasLs |-> TRUE, ls |-> LsList, hasZ |-> FALSE, z |-> <<>>],
      [hasLs |-> FALSE, ls |-> <<>>, hasZ |-> TRUE, z |-> ZList],
      [hasLs |-> TRUE, ls |-> LsList, hasZ |-> TRUE, z |-> ZFlat],
      [hasLs |-> TRUE, ls |-> LsList, hasZ |-> TRUE, z |-> ZShort] }

\* the current_timestep setter at index i (0-based): the lattice spacing
\* and z-line it leaves, and whether a list lookup raised IndexError
SetCurrentTimestep(td, ls_0, z_0, nu, ls, z, i) ==
    IF td.hasLs /\ i + 1 > Len(td.ls)
    THEN [ls |-> ls, z |-> z, raised |-> TRUE]
    ELSE LET ls1 == IF td.hasLs THEN td.ls[i + 1] ELSE ls
         IN IF ~td.hasZ
            THEN [ls |-> ls1, z |-> z, raised |-> FALSE]
            ELSE IF i + 1 > Len(td.z)
            THEN [ls |-> ls1, z |-> z, raised |-> TRUE]
            ELSE [ls |-> PoissonLs(ls_0, z_0, nu, td.z[i + 1]),
                  z |-> td.z[i + 1], raised |-> FALSE]

(***************************************************************************)
(* hs.__init__ and hs.run                                                  *)
(***************************************************************************)
RunPoissonRatios == {0, 1}

\* hs.__init__: the first list entries override the passed values, the
\* initial values are recorded, and current_timestep is set to 0
HsInit ==
    /\ timeDependence \in TimeDependences
    /\ poissonRatio \in RunPoissonRatios
    /\ initialLs = (IF timeDependence.hasLs THEN timeDependence.ls[1]
                    ELSE Lit(14, 1))
    /\ initialZ = (IF timeDependence.hasZ THEN timeDependence.z[1]
                   ELSE Lit(1250, 1))
    /\ LET made == PoissonLs(initialLs, initialZ, poissonRatio, initialZ)
           set == SetCurrentTimestep(timeDependence, initialLs, initialZ,
                                     poissonRatio, made, initialZ, 0)
       IN /\ latticeSpacing = set.ls
          /\ zLine = set.z
    /\ lsOp = "init"
    /\ currentTimestep = 0
    /\ axial = [f \in Thick |-> InitialAxial]
    /\ crownForce = [f \in Thick |-> [n \in Crowns |-> 0]]
    /\ titinForce = [f \in Thick |-> 0]
    /\ thinResidual = 0
    /\ pc = "idle"
    /\ runN = 0
    /\ runI = 0
    /\ output = <<>>
    /\ status = -1
    /\ runFail = NoFail
    /\ failStep = 0
    /\ stepLog = <<>>

\* the half-sarcomere left alone
HsIdle ==
    /\ timeDependence = NoTimeDependence
    /\ currentTimestep = 0
    /\ axial = [f \in Thick |-> InitialAxial]
    /\ crownForce = [f \in Thick |-> [n \in Crowns |-> 0]]
    /\ titinForce = [f \in Thick |-> 0]
    /\ thinResidual = 0
    /\ pc = "idle"
    /\ runN = 0
    /\ runI = 0
    /\ output = <<>>
    /\ status = -1
    /\ runFail = NoFail
    /\ failStep = 0
    /\ stepLog = <<>>

\* what the steps of a run leave alone
notRun == <<tmVars, initialLs, initialZ, poissonRatio, timeDependence, detVars,
           fnVars>>

\* hs.run is called
RunCall ==
    /\ pc = "idle"
    /\ \E n \in 0..MaxSteps :
        /\ runN' = n
        /\ pc' = IF n = 0 THEN "done" ELSE "timestep"
        /\ status' = IF n = 0 THEN 0 ELSE -1
    /\ runI' = 0
    /\ output' = <<>>
    /\ stepLog' = <<>>
    /\ UNCHANGED <<runFail, failStep, currentTimestep, latticeSpacing, zLine,
                   lsOp, mechVars, notRun>>

\* run returns status st because of what (kind) happened in stage
Return(st, kind, stage) ==
    /\ pc' = "done"
    /\ status' = st
    /\ runFail' = [kind |-> kind, stage |-> stage]
    /\ failStep' = runI + 1
    /\ UNCHANGED <<runN, runI, output>>

\* the current_timestep setter with the index stored first
SetterEventsIndexFirst == <<"index", "hiding_line", "overrides">>

\* what the current_timestep setter does, in order: update_hiding_line(),
\* the overrides of time_dependence at the new index, then the assignment
\* of _current_timestep
SetterEvents == <<"hiding_line", "overrides", "index">>

\* [thick.transition() for thick in self.thick]
TransitionEvents ==
    <<"transition_0", "transition_1", "transition_2", "transition_3">>

\* hs.timestep, first statement: self.current_timestep += 1
TimestepAdvance ==
    /\ pc = "timestep"
    /\ LET set == SetCurrentTimestep(timeDependence, initialLs, initialZ,
                                     poissonRatio, latticeSpacing, zLine,
                                     currentTimestep + 1)
       IN /\ latticeSpacing' = set.ls
          /\ zLine' = set.z
          /\ lsOp' = "timestep"
          /\ \/ /\ ~set.raised
                /\ currentTimestep' = currentTimestep + 1
                /\ pc' = "transition"
                /\ stepLog' = SetterEvents
                /\ UNCHANGED <<runN, runI, output, status, runFail, failStep>>
             \/ /\ set.raised
                /\ Return(1, "exception", "timestep")
                /\ stepLog' = SubSeq(SetterEvents, 1, 1)
                /\ UNCHANGED currentTimestep
    /\ UNCHANGED <<mechVars, notRun>>

\* the forces the cross-bridges of a crown exert after a transition, the
\* force of a filament's titin, and the force at a node of the thin
\* filaments (1e-6 pN)
CrownForces == {0, 100000}
TitinForces == {0, 100000}
ThinStuck == 150000

\* hs.timestep, second statement: every thick filament's transition.  The
\* cross-bridges of the last crown of a filament and its titin change the
\* force they exert, or the thin filaments are left with a force that
\* their settle does not relieve, or a transition raises
TransitionPass ==
    /\ pc = "transition"
    /\ \/ /\ \E f \in Thick, c \in CrownForces, t \in TitinForces :
                /\ crownForce' = [crownForce EXCEPT ![f][NCrowns] = c]
                /\ titinForce' = [titinForce EXCEPT ![f] = t]
          /\ thinResidual' = 0
          /\ pc' = "settle"
          /\ stepLog' = stepLog \o TransitionEvents
          /\ UNCHANGED <<runN, runI, output, status, runFail, failStep>>
       \/ /\ thinResidual' = ThinStuck
          /\ pc' = "settle"
          /\ stepLog' = stepLog \o TransitionEvents
          /\ UNCHANGED <<crownForce, titinForce, runN, runI, output, status,
                         runFail, failStep>>
       \/ /\ Return(1, "exception", "transition")
          /\ UNCHANGED <<crownForce, titinForce, thinResidual, stepLog>>
    /\ UNCHANGED <<axial, currentTimestep, latticeSpacing, zLine, lsOp, notRun>>

\* ThinFilament.settle at the most loaded node: the pass overshoots and
\* leaves the force reversed instead of relieved
ThinSettle(force) == -force

\* hs.settle: one pass of _single_settle and the test of the loop
SettlePass ==
    /\ pc = "settle"
    /\ LET pass == SingleSettle(axial, crownForce, titinForce,
                                Abs(thinResidual))
       IN /\ axial' = pass.axial
          /\ pc' = IF pass.converge > converge_limit THEN "settle"
                   ELSE "callback"
          /\ stepLog' = IF pass.converge > converge_limit THEN stepLog
                        ELSE Append(stepLog, "settle")
    /\ thinResidual' = ThinSettle(thinResidual)
    /\ UNCHANGED <<crownForce, titinForce, runN, runI, output, status, runFail,
                   failStep, currentTimestep, latticeSpacing, zLine, lsOp,
                   notRun>>

\* output.append(callback()), the callback being hs.axial_force unless the
\* caller passes one, which may raise
CallbackStep ==
    /\ pc = "callback"
    /\ \/ /\ output' = Append(output, HsAxialForce(axial))
          /\ pc' = "bar"
          /\ stepLog' = Append(stepLog, "callback")
          /\ UNCHANGED <<runN, runI, status, runFail, failStep>>
       \/ Return(1, "exception", "callback") /\ UNCHANGED stepLog
    /\ UNCHANGED <<mechVars, currentTimestep, latticeSpacing, zLine, lsOp,
                   notRun>>

\* the progress report that ends the loop body, then the next iteration or
\* the return of (output, 0)
ProgressBar ==
    /\ pc = "bar"
    /\ \/ /\ runI' = runI + 1
          /\ pc' = IF runI + 1 = runN THEN "done" ELSE "timestep"
          /\ status' = IF runI + 1 = runN THEN 0 ELSE -1
          /\ UNCHANGED <<runN, output, runFail, failStep>>
       \/ Return(1, "exception", "bar")
    /\ UNCHANGED <<stepLog, mechVars, currentTimestep, latticeSpacing, zLine, lsOp,
                   notRun>>

\* a variant that treats an interruption as any other exception
InterruptAsFailure ==
    /\ pc \in {"timestep", "transition", "settle", "callback", "bar"}
    /\ Return(1, "interrupt", pc)
    /\ UNCHANGED <<stepLog, mechVars, currentTimestep, latticeSpacing, zLine, lsOp,
                   notRun>>

\* KeyboardInterrupt inside the try block
Interrupt ==
    /\ pc \in {"timestep", "transition", "settle", "callback", "bar"}
    /\ Return(130, "interrupt", pc)
    /\ UNCHANGED <<stepLog, mechVars, currentTimestep, latticeSpacing, zLine, lsOp,
                   notRun>>

Next ==
    \/ RunCall
    \/ TimestepAdvance
    \/ TransitionPass
    \/ SettlePass
    \/ CallbackStep
    \/ ProgressBar
    \/ Interrupt

(***************************************************************************)
(* Two executions from one seed: hs.__init__, then timesteps               *)
(***************************************************************************)
Execs == 1..2

\* the states of np.random's generator.  The real generator is numpy's;
\* what matters here is that seed(x) sets a state that depends on x only,
\* that seed() takes a state from the operating system's entropy, and
\* that every draw is a function of the state and advances it
Seeds == 0..7

RngNext(s) == (5 * s + 3) % 8

\* np.random.random() in 1/1000
RngDraw(s) == CASE s % 3 = 0 -> 0 [] s % 3 = 1 -> 500 [] OTHER -> 999

\* the draws of one pass over the chain, one per site, in list order
RECURSIVE RngStates(_, _)
RngStates(s, n) == IF n = 0 THEN <<>> ELSE <<s>> \o RngStates(RngNext(s), n - 1)

ChainDraws(s) == [i \in Sites |-> RngDraw(RngStates(s, NSites)[i])]

RECURSIVE RngAfter(_, _)
RngAfter(s, n) == IF n = 0 THEN s ELSE RngAfter(RngNext(s), n - 1)

\* the calcium level of both executions, all binding sites unbound and
\* without tension
DetCa == [p12 |-> 1000, p14 |-> 0, p21 |-> 10, p41 |-> 10]
DetBs == [i \in Sites |-> 0]

\* nothing constructed in either execution
DetIdle ==
    /\ detSeed = 0
    /\ rng = [e \in Execs |-> 0]
    /\ detBuilt = [e \in Execs |-> FALSE]
    /\ detStep = [e \in Execs |-> 0]
    /\ detTraj = [e \in Execs |-> <<>>]

\* the caller has called np.random.seed(detSeed) in both executions
DetInit ==
    /\ detSeed \in Seeds
    /\ rng = [e \in Execs |-> detSeed]
    /\ detBuilt = [e \in Execs |-> FALSE]
    /\ detStep = [e \in Execs |-> 0]
    /\ detTraj = [e \in Execs |-> <<>>]

notDet == <<tmVars, lsVars, mechVars, runVars, fnVars>>

\* hs.__init__ with starts supplied: np.random.seed() is called without
\* an argument, then no draw is made for the starts
DetConstruct ==
    \E e \in Execs :
        /\ ~detBuilt[e]
        /\ \E s \in Seeds : rng' = [rng EXCEPT ![e] = s]
        /\ detBuilt' = [detBuilt EXCEPT ![e] = TRUE]
        /\ UNCHANGED <<detSeed, detStep, detTraj, notDet>>

\* the chain state an execution holds
DetState(e) ==
    IF detTraj[e] = <<>> THEN [i \in Sites |-> 0]
    ELSE detTraj[e][Len(detTraj[e])].st

\* one timestep of an execution: Tropomyosin.transition with draws from
\* np.random
DetTimestep ==
    \E e \in Execs :
        /\ detBuilt[e]
        /\ detStep[e] < MaxSteps
        /\ LET r == ChainTransition(DetState(e), DetBs, DetBs, DetCa,
                                    ChainDraws(rng[e]))
           IN detTraj' = [detTraj EXCEPT ![e] = Append(@, r)]
        /\ rng' = [rng EXCEPT ![e] = RngAfter(@, NSites)]
        /\ detStep' = [detStep EXCEPT ![e] = @ + 1]
        /\ UNCHANGED <<detSeed, detBuilt, notDet>>

DetNext ==
    \/ DetConstruct
    \/ DetTimestep

(***************************************************************************)
(* Actions on the tropomyosin chain                                        *)
(***************************************************************************)
HasLocked(st, bs) == \E i \in Sites : st[i] = 3 /\ bs[i] = 1

TensionLevels == {0, 16}

TmInit ==
    /\ tmState = [i \in Sites |-> 0]
    /\ bsState = [i \in Sites |-> 0]
    /\ bsTension = [i \in Sites |-> 0]
    /\ tmHadLocked = FALSE
    /\ tmOp = "init"
    /\ tmResult = "none"
    /\ snapshot = NoSnapshot

\* one call of TmSite.transition
TmSiteTransition ==
    \E i \in Sites, ca \in CaLevels, rand \in RandDraws :
        LET r == SiteTransition(tmState, bsState, bsTension, i, ca, rand)
        IN /\ tmState' = r.st
           /\ tmResult' = r.ret
           /\ tmOp' = "site"
           /\ tmHadLocked' = HasLocked(tmState, bsState)
           /\ snapshot' = NoSnapshot
           /\ UNCHANGED <<bsState, bsTension, notTm>>

\* one call of Tropomyosin._spread_activation
TmSpreadActivation ==
    /\ tmState' = SpreadActivation(tmState, bsTension)
    /\ tmResult' = "none"
    /\ tmOp' = "spread"
    /\ tmHadLocked' = HasLocked(tmState, bsState)
    /\ snapshot' = NoSnapshot
    /\ UNCHANGED <<bsState, bsTension, notTm>>

\* one call of Tropomyosin.transition
TmChainTransition ==
    \E ca \in CaLevels, rands \in [Sites -> RandDraws] :
        LET r == ChainTransition(tmState, bsState, bsTension, ca, rands)
        IN /\ tmState' = r.st
           /\ tmResult' = r.ret
           /\ tmOp' = "chain"
           /\ tmHadLocked' = HasLocked(tmState, bsState)
           /\ snapshot' = NoSnapshot
           /\ UNCHANGED <<bsState, bsTension, notTm>>

\* TmSite.from_dict: the state of a site is read from the snapshot
TmFromDict ==
    \E i \in Sites, s \in 0..3 :
        /\ tmState' = [tmState EXCEPT ![i] = s]
        /\ tmOp' = "load"
        /\ tmResult' = "none"
        /\ tmHadLocked' = FALSE
        /\ snapshot' = NoSnapshot
        /\ UNCHANGED <<bsState, bsTension, notTm>>

\* the binding site collaborator: a cross-bridge binds or unbinds, the
\* tension at the site changes
BsChange ==
    \E i \in Sites, b \in {0, 1}, f \in TensionLevels :
        /\ bsState' = [bsState EXCEPT ![i] = b]
        /\ bsTension' = [bsTension EXCEPT ![i] = f]
        /\ tmOp' = "bs"
        /\ tmResult' = "none"
        /\ tmHadLocked' = FALSE
        /\ snapshot' = NoSnapshot
        /\ UNCHANGED <<tmState, notTm>>

\* one call of Tropomyosin.from_dict
TmChainFromDict ==
    \E tmd \in Snapshots :
        LET r == TropomyosinFromDict(tmState, tmd)
        IN /\ tmState' = r.st
           /\ tmResult' = r.ret
           /\ tmOp' = "from_dict"
           /\ tmHadLocked' = FALSE
           /\ snapshot' = tmd
           /\ UNCHANGED <<bsState, bsTension, notTm>>

TmNext ==
    \/ TmSiteTransition
    \/ TmSpreadActivation
    \/ TmChainTransition
    \/ TmFromDict
    \/ TmChainFromDict
    \/ BsChange

(***************************************************************************)
(* Functions without side effects, called on an argument                   *)
(***************************************************************************)
NotCalled == [fn |-> "none"]

\* no call is being looked at
FnIdle ==
    /\ fnArg = <<>>
    /\ fnResult = NotCalled

\* what a call of such a function leaves alone
notFn == <<tmVars, lsVars, mechVars, runVars, detVars>>

\* the rest of the model, as constructed by default
RestDefault == TmInit /\ LsDefault /\ HsIdle /\ DetIdle

(***************************************************************************)
(* hs.py, mf.py: resolve_address                                           *)
(***************************************************************************)
\* the indices an address may hold at each level
AddrIdx == 0..2

\* the kinds the code or its documentation name, and one that none names
ThinKinds == {"thin_face", "bs"}
ThickKinds == {"crown", "thick_face", "xb"}
TmKinds == {"tropomyosin", "tm_site"}
Kinds == {"thin_fil", "thick_fil", "sarcomere"} \cup ThinKinds \cup ThickKinds
            \cup TmKinds

\* the number of indices that follow the kind
Depth(kind) ==
    CASE kind \in {"thin_fil", "thick_fil", "sarcomere"} -> 1
      [] kind \in {"thin_face", "bs", "crown", "thick_face", "tropomyosin"} -> 2
      [] OTHER -> 3

Addresses ==
    UNION { { <<kind>> \o ix : ix \in [1..Depth(kind) -> AddrIdx] } :
            kind \in Kinds }

\* an entity of the lattice is named by its own address
Found(address) == [fn |-> "resolve_address", entity |-> address, warned |-> FALSE]
Unresolved == [fn |-> "resolve_address", entity |-> <<>>, warned |-> TRUE]

\* ThickFace.resolve_address
FaceResolveAddress(address) ==
    IF address[1] = "xb" THEN Found(address) ELSE Unresolved

\* ThickFilament.resolve_address
ThickResolveAddress(address) ==
    IF address[1] = "crown" THEN Found(address)
    ELSE IF address[1] = "thick_face" THEN Found(address)
    ELSE IF address[1] = "xb" THEN FaceResolveAddress(address)
    ELSE Unresolved

\* ThinFilament.resolve_address: the thin filament hands back its faces
\* and binding sites
ThinResolveAddress(address) ==
    IF address[1] \in ThinKinds THEN Found(address) ELSE Unresolved

\* hs.resolve_address
HsResolveAddress(address) ==
    IF address[1] = "thin_fil" THEN Found(address)
    ELSE IF address[1] \in {"thin_face", "bs"} THEN ThinResolveAddress(address)
    ELSE IF address[1] = "thick_fil" THEN Found(address)
    ELSE IF address[1] \in {"crown", "thick_face", "xb"}
         THEN ThickResolveAddress(address)
    ELSE Unresolved

InitAddr ==
    /\ fnArg \in Addresses
    /\ fnResult = NotCalled
    /\ RestDefault

\* one call of hs.resolve_address
ResolveAddress ==
    /\ fnResult = NotCalled
    /\ fnResult' = HsResolveAddress(fnArg)
    /\ UNCHANGED <<fnArg, notFn>>

SpecAddr == InitAddr /\ [][ResolveAddress]_vars

(***************************************************************************)
(* mf.py: ThickFace.__init__                                               *)
(***************************************************************************)
\* a cross-bridge made by mh.Crossbridge(i, self, thin_face): what is kept
\* of it is the node index it was given
Crossbridge(i) == [kind |-> "xb", index |-> i]

\* the None of an unpopulated level
NoHead == [kind |-> "none", index |-> -1]

\* Crossbridge.index of the head
XbIndex(head) == head.index

\* the levels with the faces' orientations exchanged
HasHeadSwapped(index, crown_level) ==
    IF index \in {0, 2, 4} THEN crown_level = 2 ELSE crown_level \in {1, 3}

\* whether the branch of the loop for this face appends a head ...
HasHead(index, crown_level) ==
    IF index \in {0, 2, 4} THEN crown_level \in {1, 3} ELSE crown_level = 2

\* ... or a None
HasNone(index, crown_level) ==
    IF index \in {0, 2, 4} THEN crown_level = 2 ELSE crown_level \in {1, 3}

\* the loop over range(len(axial_locations)), node i and the lists so far
RECURSIVE FaceLoop(_, _, _, _, _, _)
FaceLoop(index, n, i, crown_level, xb, xb_by_crown) ==
    IF i = n THEN [xb |-> xb, xb_by_crown |-> xb_by_crown]
    ELSE FaceLoop(index, n, i + 1, (crown_level % 3) + 1,
                  IF HasHead(index, crown_level)
                  THEN Append(xb, Crossbridge(i)) ELSE xb,
                  IF HasHead(index, crown_level)
                  THEN Append(xb_by_crown, Crossbridge(i))
                  ELSE IF HasNone(index, crown_level)
                  THEN Append(xb_by_crown, NoHead)
                  ELSE xb_by_crown)

\* ThickFace.__init__ for a face of orientation index that starts on level
\* start and runs along n nodes
ThickFaceInit(index, start, n) ==
    LET lists == IF index \in 0..5
                 THEN FaceLoop(index, n, 0, start, <<>>, <<>>)
                 ELSE [xb |-> <<>>, xb_by_crown |-> <<>>]
    IN [fn |-> "ThickFace",
        xb |-> lists.xb,
        xb_by_crown |-> lists.xb_by_crown,
        xb_index |-> [j \in 1..Len(lists.xb) |-> XbIndex(lists.xb[j])]]

\* len(axial_locations) of the faces looked at
FaceNodes == 1..(2 * NCrowns)

InitFace ==
    /\ fnArg \in [index : 0..5, start : 1..3, n : FaceNodes]
    /\ fnResult = NotCalled
    /\ RestDefault

\* one construction of a ThickFace
FaceConstruct ==
    /\ fnResult = NotCalled
    /\ fnResult' = ThickFaceInit(fnArg.index, fnArg.start, fnArg.n)
    /\ UNCHANGED <<fnArg, notFn>>

SpecFace == InitFace /\ [][FaceConstruct]_vars

(***************************************************************************)
(* mf.py: ThickFace.radialtension                                          *)
(***************************************************************************)
\* sum() of a list
RECURSIVE SumSeq(_)
SumSeq(q) == IF q = <<>> THEN 0 ELSE q[1] + SumSeq(Tail(q))

\* ThickFace.radialtension, given crossbridge.radialforce() of every head
\* of the face and titin_fil.radialforce()
FaceRadialTension(xb_radial, titin_radial) ==
    SumSeq(Append(xb_radial, titin_radial))

\* radial forces of a cross-bridge and of the titin filament (pN)
RadialForces == {-3, -1, 0, 2, 4}
TitinRadialForces == {0, 5}

InitTension ==
    /\ fnArg \in [xb : UNION { [1..n -> RadialForces] : n \in 1..2 },
                   titin : TitinRadialForces]
    /\ fnResult = NotCalled
    /\ RestDefault

\* one call of ThickFace.radialtension
RadialTension ==
    /\ fnResult = NotCalled
    /\ fnResult' = [fn |-> "radialtension",
                    value |-> FaceRadialTension(fnArg.xb, fnArg.titin)]
    /\ UNCHANGED <<fnArg, notFn>>

SpecTension == InitTension /\ [][RadialTension]_vars

(***************************************************************************)
(* hs.py: ls_to_d10 and d10_to_ls                                          *)
(***************************************************************************)
\* hs.ls_to_d10: 1.5 * (face_dist + 0.5 * 9 + 0.5 * 16)
LsToD10(face_dist) ==
    LET filcenter_dist ==
            FAdd(FAdd(face_dist, FMul(Lit(1, 2), Lit(9, 1))),
                 FMul(Lit(1, 2), Lit(16, 1)))
    IN FMul(Lit(3, 2), filcenter_dist)

\* hs.d10_to_ls: d10 * 2 / 3 - 0.5 * 9 - 0.5 * 16
D10ToLs(d10) ==
    LET filcenter_dist == FDiv(FMul(d10, Lit(2, 1)), Lit(3, 1))
    IN FSub(FSub(filcenter_dist, FMul(Lit(1, 2), Lit(9, 1))),
            FMul(Lit(1, 2), Lit(16, 1)))

\* face-to-face spacings above -12.5 nm: the numbers next to 13 nm and
\* next to -12 nm, at the resolution of the arithmetic
Spacings ==
    { Lit(13, 1) + n : n \in (-40)..40 } \cup { n - Lit(12, 1) : n \in 0..40 }

InitConv ==
    /\ fnArg \in [from : {"ls", "d10"}, x : Spacings]
    /\ fnResult = NotCalled
    /\ RestDefault

\* a spacing is converted and converted back, starting from a lattice
\* spacing x or from the d10 value that corresponds to x
RoundTrip ==
    /\ fnResult = NotCalled
    /\ fnResult' =
        IF fnArg.from = "ls"
        THEN [fn |-> "round_trip", start |-> fnArg.x,
              value |-> D10ToLs(LsToD10(fnArg.x))]
        ELSE [fn |-> "round_trip", start |-> LsToD10(fnArg.x),
              value |-> LsToD10(D10ToLs(LsToD10(fnArg.x)))]
    /\ UNCHANGED <<fnArg, notFn>>

SpecConv == InitConv /\ [][RoundTrip]_vars

(***************************************************************************)
(* tm.py: TmSite._forward_backward on its own                              *)
(***************************************************************************)
\* probabilities and draws in 1/1000; np.random.random() is in [0, 1)
FbProbs == {0, 10, 500, 632, 1000}
FbDraws == {0, 5, 499, 500, 995, 999}

InitFb ==
    /\ fnArg \in [f : FbProbs, b : FbProbs, r : FbDraws]
    /\ fnResult = NotCalled
    /\ RestDefault

\* one call of TmSite._forward_backward
ForwardBackwardCall ==
    /\ fnResult = NotCalled
    /\ fnResult' = [fn |-> "_forward_backward",
                    word |-> ForwardBackward(fnArg.f, fnArg.b, fnArg.r)]
    /\ UNCHANGED <<fnArg, notFn>>

SpecFb == InitFb /\ [][ForwardBackwardCall]_vars

InitDefault == TmInit /\ LsDefault /\ HsIdle /\ DetIdle /\ FnIdle

SpecTm == InitDefault /\ [][TmNext]_vars

InitLs == LsInit /\ TmInit /\ HsIdle /\ DetIdle /\ FnIdle

SpecLs == InitLs /\ [][LsNext]_vars

InitDet == DetInit /\ TmInit /\ LsDefault /\ HsIdle /\ FnIdle

SpecDet == InitDet /\ [][DetNext]_vars

Init == HsInit /\ TmInit /\ DetIdle /\ FnIdle

Spec == Init /\ [][Next]_vars

\* the steps the interpreter takes by itself once run is called; an
\* interruption request is the environment's and may never come
Running ==
    \/ TimestepAdvance
    \/ TransitionPass
    \/ SettlePass
    \/ CallbackStep
    \/ ProgressBar

LiveSpec == InitDefault /\ [][Next]_vars /\ WF_vars(Running)

(***************************************************************************)
(* Claims on the tropomyosin chain, checked under SpecTm                   *)
(***************************************************************************)
\* C2: in every reachable state, after any sequence of TmSite.transition
\* calls, cooperative-spread passes and whole-chain transitions, the state
\* of every tropomyosin site is one of 0, 1, 2, 3.
C2_StateInRange == \A i \in Sites : tmState[i] \in 0..3

\* a chain transition has returned and left a site in state 3, the state
\* whose forward step wraps around the ring
C2_Witness ==
    /\ tmOp = "chain"
    /\ tmResult = "ok"
    /\ \E i \in Sites : tmState[i] = 3
    /\ \E i \in Sites : tmState[i] = 0

\* C3: a site that is in state 3 over a bound binding site when
\* Tropomyosin.transition is called is still in state 3 when the call ends,
\* after the per-site pass and the cooperative-spread pass.
C3_LockedStaysOpen ==
    [][tmOp' = "chain" =>
        \A i \in Sites :
            (tmState[i] = 3 /\ bsState[i] = 1) => tmState'[i] = 3]_vars

\* a chain transition has returned that was called with a locked site and
\* has moved another site
C3_Witness ==
    /\ tmOp = "chain"
    /\ tmResult = "ok"
    /\ tmHadLocked
    /\ \E i \in Sites : tmState[i] = 3 /\ bsState[i] = 1
    /\ \E i \in Sites : tmState[i] = 1

\* C4: the cooperative-spread pass never lowers a site's state and never
\* changes a site in state 2 or 3: its only change is to raise state-0
\* sites to state 1.
C4_SpreadOnlyRaises ==
    [][tmOp' = "spread" =>
        \A i \in Sites :
            /\ tmState'[i] >= tmState[i]
            /\ (tmState[i] \in {2, 3} => tmState'[i] = tmState[i])
            /\ (tmState'[i] # tmState[i] =>
                    tmState[i] = 0 /\ tmState'[i] = 1)]_vars

(***************************************************************************)
(* Claims on the lattice spacing, checked under SpecLs                     *)
(***************************************************************************)
\* C8: identity cases of the Poisson law: for every Poisson ratio, after
\* z_line is assigned the initial z-line the lattice spacing equals the
\* initial lattice spacing exactly; with Poisson ratio 0 it does so after
\* every z_line assignment.
C8_PoissonIdentity ==
    (lsOp \in {"init", "z_line"} /\ (zLine = initialZ \/ poissonRatio = 0))
        => latticeSpacing = initialLs

(***************************************************************************)
(* Claims about hs.settle, hs.run and the current_timestep setter          *)
(***************************************************************************)
\* C1: whenever hs.settle() returns, the largest absolute residual force
\* over the nodes of the thick and thin filaments, at the positions they
\* hold at that moment, is at most 0.12 pN.
C1_SettledWithinLimit ==
    pc = "callback" =>
        Max2(ThickResidual(axial, crownForce, titinForce), Abs(thinResidual))
            <= converge_limit

C6_NoPartialTimestep ==
    (pc = "done" /\ status \in {1, 130}) => currentTimestep = Len(output)

\* C7: after timestep() advances to index i, lattice_spacing equals entry i
\* of its list whenever time_dependence has one, and z_line equals entry i
\* of its list whenever time_dependence has one.
C7_OverridesApplied ==
    pc = "transition" =>
        /\ timeDependence.hasLs =>
            latticeSpacing = timeDependence.ls[currentTimestep + 1]
        /\ timeDependence.hasZ =>
            zLine = timeDependence.z[currentTimestep + 1]

\* C9: the measurement the default callback appends is the sum over the
\* four thick filaments of k * (axial[0] - b_z): 0 when every first node is
\* at its rest length, whatever the other nodes and the cross-bridges do.
C9_EffectiveAxialForce ==
    [][(pc = "callback" /\ pc' = "bar") =>
        output' = Append(output,
            k * (axial[1][1] - bare_zone) + k * (axial[2][1] - bare_zone)
            + k * (axial[3][1] - bare_zone) + k * (axial[4][1] - bare_zone))]_vars

C9_Witness ==
    /\ pc = "bar"
    /\ output[Len(output)] # 0
    /\ \E f \in Thick : axial[f][1] = bare_zone /\ axial[f][NCrowns] # InitialAxial[NCrowns]
    /\ \E f \in Thick : axial[f][1] # bare_zone

\* C10: every call of hs.settle eventually returns or reports; it never
\* iterates forever.
C10_SettleReturns == (pc = "settle") ~> (pc # "settle")

\* C11: an override list of time_dependence that is shorter than the run
\* is rejected at construction; it is never first detected by a timestep
\* of a run after earlier timesteps have changed the model.
C11_ShortOverrideRejected ==
    ~(/\ pc = "done"
      /\ runFail = [kind |-> "exception", stage |-> "timestep"]
      /\ currentTimestep >= 1)

\* C12: with the seed fixed by the caller before construction and the
\* same starts supplied, two executions go through the same sequence of
\* transition outcomes and tropomyosin states at every timestep.
C12_Deterministic ==
    \A n \in 1..MaxSteps :
        (Len(detTraj[1]) >= n /\ Len(detTraj[2]) >= n) =>
            detTraj[1][n] = detTraj[2][n]

\* C13: from_dict from a snapshot that does not fit the live lattice (the
\* address differs, or the number of site records differs from the live
\* count) always aborts with an error; it never returns normally having
\* loaded only part of the live sites.
C13_IncompatibleAborts ==
    tmOp = "from_dict" =>
        /\ (snapshot.address # TmAddress \/ Len(snapshot.sites) # NSites)
                => tmResult = "raised"
        /\ tmResult = "ok" =>
                /\ Len(snapshot.sites) = NSites
                /\ \A i \in Sites : tmState[i] = snapshot.sites[i]

\* C14: hs.resolve_address returns the addressed entity for every path
\* whose kind is thin_fil, thin_face, bs, thick_fil, crown, thick_face, xb,
\* tropomyosin or tm_site; for any other kind it returns nothing, with a
\* warning and no exception, and changes no state.
C14_ResolvesEveryKind ==
    fnResult.fn = "resolve_address" =>
        IF fnArg[1] \in {"thin_fil", "thin_face", "bs", "thick_fil", "crown",
                         "thick_face", "xb", "tropomyosin", "tm_site"}
        THEN fnResult.entity = fnArg /\ ~fnResult.warned
        ELSE fnResult.entity = <<>> /\ fnResult.warned

C16_FacePopulation ==
    fnResult.fn = "ThickFace" =>
        /\ Len(fnResult.xb_by_crown) = fnArg.n
        /\ \A i \in 0..(fnArg.n - 1) :
            LET level == ((i + fnArg.start - 1) % 3) + 1
                here == \/ fnArg.index % 2 = 0 /\ level \in {1, 3}
                        \/ fnArg.index % 2 = 1 /\ level = 2
            IN IF here
               THEN fnResult.xb_by_crown[i + 1] = [kind |-> "xb", index |-> i]
               ELSE fnResult.xb_by_crown[i + 1].kind = "none"
        /\ fnResult.xb =
            SelectSeq(fnResult.xb_by_crown, LAMBDA h : h.kind = "xb")
        /\ Len(fnResult.xb_index) = Len(fnResult.xb)
        /\ \A j \in 1..Len(fnResult.xb) :
            fnResult.xb_index[j] = fnResult.xb[j].index

C16_Witness ==
    /\ fnResult.fn = "ThickFace"
    /\ fnArg.n = 2 * NCrowns
    /\ fnArg.index = 3
    /\ fnArg.start = 3
    /\ Len(fnResult.xb) >= 2
    /\ Len(fnResult.xb) < Len(fnResult.xb_by_crown)

\* C17: ThickFace.radialtension() is the sum over the face's cross-bridges
\* of the absolute value of each one's radial force, plus the radial force
\* of the linked titin filament, for every mix of signs.
C17_SumOfMagnitudes ==
    fnResult.fn = "radialtension" =>
        fnResult.value =
            SumSeq([j \in 1..Len(fnArg.xb) |-> Abs(fnArg.xb[j])]) + fnArg.titin

\* C18: d10_to_ls(ls_to_d10(x)) = x for every face-to-face spacing
\* x > -12.5, and ls_to_d10(d10_to_ls(d)) = d for the corresponding d10
\* values.
C18_RoundTrip ==
    fnResult.fn = "round_trip" => fnResult.value = fnResult.start

\* C19: one TmSite.transition moves the site at most one step along the
\* ring 0-1-2-3-0: 'forward' from s leaves (s+1) mod 4, 'backward' leaves
\* (s+3) mod 4, 'none' leaves s; forward from 1 and backward from 3 leave
\* the site in state 2.
C19_OneRingStep ==
    [][(tmOp' = "site" /\ tmResult' \in {"forward", "backward", "none"}) =>
        \E i \in Sites :
            tmState' = [tmState EXCEPT ![i] =
                CASE tmResult' = "forward" -> (@ + 1) % 4
                  [] tmResult' = "backward" -> (@ + 3) % 4
                  [] OTHER -> @]]_vars

C21_Pipeline ==
    <<"hiding_line", "overrides", "index", "transition_0", "transition_1",
      "transition_2", "transition_3", "settle", "callback">>

\* C21: inside every timestep of a run the hiding line is recomputed, then
\* the overrides are applied and the index stored, then the transition pass
\* runs on thick filaments 0,1,2,3, then settle runs to convergence, and
\* only then the callback is invoked, once; nothing of the next timestep
\* happens before the settle and callback of this one have completed.
C21_StepOrder ==
    /\ [](/\ Len(stepLog) <= Len(C21_Pipeline)
          /\ stepLog = SubSeq(C21_Pipeline, 1, Len(stepLog))
          /\ pc = "bar" => stepLog = C21_Pipeline)
    /\ [][(stepLog' # stepLog /\ Len(stepLog') <= Len(stepLog))
            => stepLog = C21_Pipeline]_vars

C21_Witness ==
    /\ pc = "bar"
    /\ runI = 1
    /\ stepLog = C21_Pipeline
    /\ Len(output) = 2

\* C22: a tropomyosin site is subject to cooperativity iff some other site
\* of the chain lies within its span and is in state 2; a site that is
\* itself in state 2 with no other state-2 site in its span is not, and its
\* 2->3 rate is not multiplied by the cooperativity factor.
C22_OtherSiteInState2 ==
    \A i \in Sites :
        LET other == \E j \in Sites \ {i} :
                        /\ Abs(AxialLocation(j) - AxialLocation(i))
                                < SpanOf(bsTension[i])
                        /\ tmState[j] = 2
        IN /\ SubjectToCooperativity(tmState, bsTension, i) <=> other
           /\ R34(tmState, bsTension, i) = (IF other THEN k_34 * coop ELSE k_34)

\* the per-site pass with the sites visited in the order given, each call
\* of TmSite.transition acting on the chain as the calls before it left it
RECURSIVE C23_PassInOrder(_, _, _, _, _, _)
C23_PassInOrder(st, bs, tens, order, ca, rands) ==
    IF order = <<>> THEN [st |-> st, raised |-> FALSE]
    ELSE LET r == SiteTransition(st, bs, tens, order[1], ca, rands[order[1]])
         IN IF r.ret = "raised" THEN [st |-> r.st, raised |-> TRUE]
            ELSE C23_PassInOrder(r.st, bs, tens, Tail(order), ca, rands)

C23_Orders == { o \in [Sites -> Sites] : \A i, j \in Sites : o[i] = o[j] => i = j }

\* C23: for a chain in any state and any fixed assignment of one draw per
\* site, the states of all sites after the per-site pass of
\* Tropomyosin.transition are the same for every order in which the sites
\* are visited.
C23_OrderIndependent ==
    \A ca \in CaLevels, rands \in [Sites -> RandDraws], o \in C23_Orders :
        LET listed == SitePass(tmState, bsState, bsTension, 1, ca, rands, <<>>)
            other == C23_PassInOrder(tmState, bsState, bsTension, o, ca, rands)
        IN (~listed.raised /\ ~other.raised) => other.st = listed.st

(***************************************************************************)
(* hs.py: _single_settle with a cross-bridge bound between a thick and a   *)
(* thin filament                                                           *)
(***************************************************************************)
\* stiffness of a bound cross-bridge and of the thin filament (pN/nm), and
\* the axial rest length of the cross-bridge (1e-6 nm)
xb_k == 5
thin_k == 1743
xb_rest == 5000000

\* the axial force a cross-bridge bound to a site at thinLoc exerts on its
\* crown at thickLoc; the site receives the opposite force
XbAxialForce(bound, thickLoc, thinLoc) ==
    IF bound THEN xb_k * ((thinLoc - thickLoc) - xb_rest) ELSE 0

\* the force at the thin filament's node that carries the site: the
\* filament's own spring towards thinRest and the bound cross-bridge
ThinAxialForce(bound, thickLoc, thinLoc, thinRest) ==
    thin_k * (thinRest - thinLoc) - XbAxialForce(bound, thickLoc, thinLoc)

\* ThinFilament.settle: the node's new location and the returned force
ThinFilamentSettle(bound, thickLoc, thinLoc, thinRest) ==
    LET force == ThinAxialForce(bound, thickLoc, thinLoc, thinRest)
    IN [axial |-> thinLoc + RoundDiv(factor_pct * force, 100 * thin_k),
        force |-> force]

\* the forces of the cross-bridges on the crowns of a thick filament whose
\* last crown holds the cross-bridge
XbCrownForces(bound, ax, thinLoc) ==
    [n \in Crowns |->
        IF n = NCrowns THEN XbAxialForce(bound, ax[n], thinLoc) ELSE 0]

\* hs._single_settle on one thick and one thin filament: the thick
\* filament settles and moves its crowns, then the thin filament settles
CoupledSingleSettle(a) ==
    LET thick == ThickSettle(a.ax, XbCrownForces(a.bound, a.ax, a.thin), 0)
        thin == ThinFilamentSettle(a.bound, thick.axial[NCrowns], a.thin,
                                   a.thinRest)
    IN [fn |-> "_single_settle", thick |-> thick.axial, thin |-> thin.axial,
        converge |-> Max2(MaxAbs(thick.forces), Abs(thin.force))]

\* displacements of the last crown and of the thin node from where the
\* filaments rest (1e-6 nm)
SettleOffsets == {-4000, -2000, -1000, 0, 2000, 4000}

InitSettle ==
    /\ fnArg \in { [ax |-> [InitialAxial EXCEPT ![NCrowns] = @ + dx],
                    thin |-> InitialAxial[NCrowns] + xb_rest + dy,
                    thinRest |-> InitialAxial[NCrowns] + xb_rest,
                    bound |-> b] :
                    dx \in SettleOffsets, dy \in SettleOffsets, b \in BOOLEAN }
    /\ fnResult = NotCalled
    /\ RestDefault

\* one call of hs._single_settle
SingleSettleCall ==
    /\ fnResult = NotCalled
    /\ fnResult' = CoupledSingleSettle(fnArg)
    /\ UNCHANGED <<fnArg, notFn>>

SpecSettle == InitSettle /\ [][SingleSettleCall]_vars

\* the pass with both filaments reading the locations of the start of the
\* pass, as any order of the filaments would give if the claim held
C24_FromStartOfPass(a) ==
    LET thick == ThickSettle(a.ax, XbCrownForces(a.bound, a.ax, a.thin), 0)
        thin == ThinFilamentSettle(a.bound, a.ax[NCrowns], a.thin, a.thinRest)
    IN [fn |-> "_single_settle", thick |-> thick.axial, thin |-> thin.axial,
        converge |-> Max2(MaxAbs(thick.forces), Abs(thin.force))]

\* C24: within one pass of _single_settle every filament's forces and
\* displacement are computed from the node locations of all filaments as
\* they were at the start of the pass, so the new locations and the
\* returned maximum residual do not depend on the order of the filaments.
C24_PassReadsStartLocations ==
    fnResult # NotCalled => fnResult = C24_FromStartOfPass(fnArg)

\* d_j of a force vector F: factor*F_j/k, twice that at the last node
C25_Step(F, j) ==
    LET d == RoundDiv(factor_pct * F[j], 100 * k)
    IN IF j = NCrowns THEN 2 * d ELSE d

RECURSIVE C25_StepsUpTo(_, _)
C25_StepsUpTo(F, i) ==
    IF i = 0 THEN 0 ELSE C25_Step(F, i) + C25_StepsUpTo(F, i - 1)

\* C25: ThickFilament.settle(factor) moves node i by d_0 + ... + d_i, where
\* d_j = factor*F_j/k (twice that at the last node) and F is the net force
\* at each node before the call; it returns F, the forces from before the
\* update, leaves the cross-bridge and titin forces as they were, and moves
\* no node when every F_j is 0.
C25_SettleMoves ==
    [][(pc = "settle" /\ pc' \in {"settle", "callback"}) =>
        /\ \A f \in Thick :
              LET F == ThickAxialForce(axial[f], crownForce[f], titinForce[f])
              IN /\ \A i \in Crowns :
                       axial'[f][i] = axial[f][i] + C25_StepsUpTo(F, i)
                 /\ (\A j \in Crowns : F[j] = 0) => axial'[f] = axial[f]
        /\ pc' = "callback" <=>
              (/\ \A f \in Thick, j \in Crowns :
                    Abs(ThickAxialForce(axial[f], crownForce[f],
                                        titinForce[f])[j]) <= converge_limit
               /\ Abs(thinResidual) <= converge_limit)
        /\ crownForce' = crownForce
        /\ titinForce' = titinForce]_vars

\* a settle has converged after moving the nodes of a loaded filament
C25_Witness ==
    /\ pc = "callback"
    /\ \E f \in Thick :
          /\ crownForce[f][NCrowns] # 0
          /\ \A i \in Crowns : axial[f][i] # InitialAxial[i]

(***************************************************************************)
(* hs.__init__ and ThickFilament.__init__: faces, crowns and the wiring    *)
(* of thick faces to thin faces                                            *)
(***************************************************************************)
ThickIdx == 0..3
ThinIdx == 0..7
FaceIdx == 0..5
ThinFaceIdx == 0..2

\* self.thin[a].thin_faces[b] and self.thick[i].thick_faces[j]
ThinFaceOf(a, b) == [thin |-> a, face |-> b]
ThickFaceOf(i, j) == [thick |-> i, face |-> j]

\* thin_orientations, one tuple per thin filament
thin_orientations ==
    [a \in ThinIdx |->
        IF a \in {0, 2, 5, 7} THEN <<4, 0, 2>> ELSE <<3, 5, 1>>]

\* the wiring with two thin faces of thick filament 0 exchanged
ThickWiringSwapped ==
    [i \in ThickIdx |->
        CASE i = 0 -> <<ThinFaceOf(1, 2), ThinFaceOf(0, 1), ThinFaceOf(2, 2),
                        ThinFaceOf(6, 0), ThinFaceOf(5, 0), ThinFaceOf(4, 1)>>
          [] i = 1 -> <<ThinFaceOf(2, 1), ThinFaceOf(3, 2), ThinFaceOf(0, 2),
                        ThinFaceOf(4, 0), ThinFaceOf(7, 0), ThinFaceOf(6, 1)>>
          [] i = 2 -> <<ThinFaceOf(5, 1), ThinFaceOf(6, 2), ThinFaceOf(7, 2),
                        ThinFaceOf(3, 0), ThinFaceOf(2, 0), ThinFaceOf(1, 1)>>
          [] i = 3 -> <<ThinFaceOf(7, 1), ThinFaceOf(4, 2), ThinFaceOf(5, 2),
                        ThinFaceOf(1, 0), ThinFaceOf(0, 0), ThinFaceOf(3, 1)>>]

\* the thin faces handed to mf.ThickFilament(self, i, (...), start)
ThickWiring ==
    [i \in ThickIdx |->
        CASE i = 0 -> <<ThinFaceOf(0, 1), ThinFaceOf(1, 2), ThinFaceOf(2, 2),
                        ThinFaceOf(6, 0), ThinFaceOf(5, 0), ThinFaceOf(4, 1)>>
          [] i = 1 -> <<ThinFaceOf(2, 1), ThinFaceOf(3, 2), ThinFaceOf(0, 2),
                        ThinFaceOf(4, 0), ThinFaceOf(7, 0), ThinFaceOf(6, 1)>>
          [] i = 2 -> <<ThinFaceOf(5, 1), ThinFaceOf(6, 2), ThinFaceOf(7, 2),
                        ThinFaceOf(3, 0), ThinFaceOf(2, 0), ThinFaceOf(1, 1)>>
          [] i = 3 -> <<ThinFaceOf(7, 1), ThinFaceOf(4, 2), ThinFaceOf(5, 2),
                        ThinFaceOf(1, 0), ThinFaceOf(0, 0), ThinFaceOf(3, 1)>>]

\* the thick faces handed to self.thin[a].set_thick_faces((...))
ThinWiring ==
    [a \in ThinIdx |->
        CASE a = 0 -> <<ThickFaceOf(3, 4), ThickFaceOf(0, 0), ThickFaceOf(1, 2)>>
          [] a = 1 -> <<ThickFaceOf(3, 3), ThickFaceOf(2, 5), ThickFaceOf(0, 1)>>
          [] a = 2 -> <<ThickFaceOf(2, 4), ThickFaceOf(1, 0), ThickFaceOf(0, 2)>>
          [] a = 3 -> <<ThickFaceOf(2, 3), ThickFaceOf(3, 5), ThickFaceOf(1, 1)>>
          [] a = 4 -> <<ThickFaceOf(1, 3), ThickFaceOf(0, 5), ThickFaceOf(3, 1)>>
          [] a = 5 -> <<ThickFaceOf(0, 4), ThickFaceOf(2, 0), ThickFaceOf(3, 2)>>
          [] a = 6 -> <<ThickFaceOf(0, 3), ThickFaceOf(1, 5), ThickFaceOf(2, 1)>>
          [] a = 7 -> <<ThickFaceOf(1, 4), ThickFaceOf(3, 0), ThickFaceOf(2, 2)>>]

\* crown_vectors of Crown.__init__, in 1/1000
crown_vectors ==
    << << <<-886, 500>>, <<866, 500>>, <<0, -1000>> >>,
       << <<0, 1000>>, <<866, -500>>, <<-866, -500>> >> >>

\* Crown.__init__: the crown keeps its index, its cross-bridges and the
\* vectors of its orientation (0 or 1)
CrownInit(index, cross_bridges, orientations) ==
    [index |-> index, crossbridges |-> cross_bridges,
     orientations |-> crown_vectors[orientations + 1]]

\* crown_levels[n] = (n+start-1)%3+1
CrownLevel(n, start) == ((n + start - 1) % 3) + 1

\* an orientation that ignores the level
CrownOrientationFlat(level) == 0

\* crown_orientations: 0 + (l == 2)
CrownOrientation(level) == IF level = 2 THEN 1 ELSE 0

\* the loop over self.thick_faces that collects face.get_xb(index), from
\* face j on; a cross-bridge is held with the face that owns it
RECURSIVE CrownXbs(_, _, _)
CrownXbs(faces, index, j) ==
    IF j > 5 THEN <<>>
    ELSE LET current_xb == faces[j].xb_by_crown[index + 1]
         IN (IF current_xb.kind = "xb"
             THEN <<[face |-> j, index |-> XbIndex(current_xb)]>>
             ELSE <<>>) \o CrownXbs(faces, index, j + 1)

\* ThickFilament.__init__: faces and crowns of filament index
ThickFilamentInit(index, thin_faces, start) ==
    LET faces == [j \in FaceIdx |->
                    [thin_face |-> thin_faces[j + 1],
                     index |-> j,
                     xb |-> ThickFaceInit(j, start, NCrowns).xb,
                     xb_by_crown |-> ThickFaceInit(j, start, NCrowns).xb_by_crown]]
    IN [index |-> index,
        start |-> start,
        thick_faces |-> faces,
        crowns |-> [n \in 0..(NCrowns - 1) |->
                      CrownInit(n, CrownXbs(faces, n, 0),
                                CrownOrientation(CrownLevel(n, start)))]]

\* hs.__init__ is given the start level of every thick filament; the thin
\* filaments exist, no thick filament does
InitBuild ==
    /\ fnArg \in [thick_starts : [ThickIdx -> 1..3]]
    /\ fnResult = [fn |-> "hs.__init__", thick |-> <<>>, thick_faces |-> <<>>]
    /\ RestDefault

\* the next mf.ThickFilament(self, i, (...), thick_starts[i])
NewThickFilament ==
    /\ fnResult.fn = "hs.__init__"
    /\ Len(fnResult.thick) < 4
    /\ LET i == Len(fnResult.thick)
       IN fnResult' =
            [fnResult EXCEPT
                !.thick = Append(@, ThickFilamentInit(i, ThickWiring[i],
                                                      fnArg.thick_starts[i]))]
    /\ UNCHANGED <<fnArg, notFn>>

\* the next self.thin[a].set_thick_faces((...)), after the thick filaments
SetThickFaces ==
    /\ fnResult.fn = "hs.__init__"
    /\ Len(fnResult.thick) = 4
    /\ Len(fnResult.thick_faces) < 8
    /\ fnResult' =
         [fnResult EXCEPT
            !.thick_faces = Append(@, ThinWiring[Len(fnResult.thick_faces)])]
    /\ UNCHANGED <<fnArg, notFn>>

BuildNext ==
    \/ NewThickFilament
    \/ SetThickFaces

SpecBuild == InitBuild /\ [][BuildNext]_vars

\* the thin face that face j of thick filament i opposes, and the thick
\* face handed to thin filament a as element b
C26_ThinFaceOpposite(i, j) == fnResult.thick[i + 1].thick_faces[j].thin_face
C26_ThickFaceGiven(a, b) == fnResult.thick_faces[a + 1][b + 1]

\* C26: once constructed, the wiring is a mutual bijection between the 24
\* thick faces and the 24 thin faces: face j of thick filament i opposes
\* face b of thin filament a iff element b of the faces given to thin
\* filament a is that thick face, and then thin_orientations[a][b] = j;
\* the six faces of a thick filament oppose six distinct thin filaments and
\* the three faces of a thin filament three distinct thick filaments.
C26_WiringBijection ==
    (fnResult.fn = "hs.__init__" /\ Len(fnResult.thick_faces) = 8) =>
        /\ \A i \in ThickIdx, j \in FaceIdx, a \in ThinIdx, b \in ThinFaceIdx :
              /\ C26_ThinFaceOpposite(i, j) = ThinFaceOf(a, b)
                    <=> C26_ThickFaceGiven(a, b) = ThickFaceOf(i, j)
              /\ C26_ThinFaceOpposite(i, j) = ThinFaceOf(a, b)
                    => thin_orientations[a][b + 1] = j
        /\ \A i \in ThickIdx :
              Cardinality({C26_ThinFaceOpposite(i, j).thin : j \in FaceIdx}) = 6
        /\ \A a \in ThinIdx :
              Cardinality({C26_ThickFaceGiven(a, b).thick : b \in ThinFaceIdx}) = 3
        /\ Cardinality({C26_ThinFaceOpposite(i, j) :
                            i \in ThickIdx, j \in FaceIdx}) = 24
        /\ Cardinality({C26_ThickFaceGiven(a, b) :
                            a \in ThinIdx, b \in ThinFaceIdx}) = 24

\* every thick and thin filament has been wired
C26_Witness ==
    /\ fnResult.fn = "hs.__init__"
    /\ Len(fnResult.thick) = 4
    /\ Len(fnResult.thick_faces) = 8
    /\ C26_ThinFaceOpposite(3, 5) = ThinFaceOf(3, 1)

CrownRadialForce(orientations, force_mag) ==
    <<force_mag[1] * orientations[1][1] + force_mag[2] * orientations[2][1]
        + force_mag[3] * orientations[3][1],
      force_mag[1] * orientations[1][2] + force_mag[2] * orientations[2][2]
        + force_mag[3] * orientations[3][2]>>

\* ThickFilament._radial_force_to_components, (f_y, f_z) in 1e-3 pN
RadialForceToComponents(crown_force, orientation) ==
    IF orientation = 0
    THEN <<-866 * crown_force[1] + 866 * crown_force[2],
           500 * crown_force[1] + 500 * crown_force[2]
             - 1000 * crown_force[3]>>
    ELSE <<866 * crown_force[2] - 866 * crown_force[3],
           1000 * crown_force[1] - 500 * crown_force[2]
             - 500 * crown_force[3]>>

\* radial forces of the three heads of a crown (pN)
HeadRadialForces == 0..4

InitRadial ==
    /\ fnArg \in [o : {0, 1}, f : [1..3 -> HeadRadialForces]]
    /\ fnResult = NotCalled
    /\ RestDefault

\* the radial force of a crown of orientation o, by the crown itself and
\* by the filament's static method
RadialForceCall ==
    /\ fnResult = NotCalled
    /\ fnResult' =
         [fn |-> "radialforce",
          crown |-> CrownRadialForce(CrownInit(0, <<>>, fnArg.o).orientations,
                                     fnArg.f),
          components |-> RadialForceToComponents(fnArg.f, fnArg.o)]
    /\ UNCHANGED <<fnArg, notFn>>

SpecRadial == InitRadial /\ [][RadialForceCall]_vars

\* C28: for either orientation and every triple of head forces,
\* Crown.radialforce() equals _radial_force_to_components of the triple, and
\* a crown whose three heads exert equal radial force has net radial force
\* (0, 0).
C28_DecompositionsAgree ==
    fnResult.fn = "radialforce" =>
        /\ fnResult.crown = fnResult.components
        /\ (fnArg.f[1] = fnArg.f[2] /\ fnArg.f[2] = fnArg.f[3])
              => fnResult.crown = <<0, 0>>

\* the chain states reachable from those of S by any number of calls
RECURSIVE C29_Reachable(_)
C29_Reachable(S) ==
    LET next == S \cup
                { r.st : r \in
                    { ChainTransition(st, bs, tens, ca, rands) :
                        st \in S, bs \in [Sites -> {0, 1}],
                        tens \in [Sites -> TensionLevels], ca \in CaLevels,
                        rands \in [Sites -> RandDraws] } \cap
                    [st : [Sites -> 0..3], ret : {"ok"}] }
    IN IF next = S THEN S ELSE C29_Reachable(next)

\* C29: from the constructed chain, all sites in state 0, some sequence of
\* Tropomyosin.transition calls with some draws leaves at least one site in
\* state 2 (closed) when a call returns.
C29_ClosedReachable ==
    (tmOp = "init" /\ tmState = [i \in Sites |-> 0]) =>
        \E st \in C29_Reachable({tmState}) \ {tmState} :
            \E i \in Sites : st[i] = 2

\* C30: TmSite.transition is total: on a site in any state 0..3 and with
\* any draw it completes and yields "forward", "backward" or "none" (or no
\* outcome on a state-3 site locked by its bound binding site); a site in
\* state 2 whose draw selects "none" completes and stays in state 2.
C30_TransitionTotal ==
    \A i \in Sites, ca \in CaLevels, rand \in RandDraws :
        LET r == SiteTransition(tmState, bsState, bsTension, i, ca, rand)
            fb == Rates(tmState, bsTension, i, ca)
        IN /\ r.ret \in {"forward", "backward", "none", "locked"}
           /\ r.ret = "locked" => (tmState[i] = 3 /\ bsState[i] = 1)
           /\ (tmState[i] = 2 /\ ForwardBackward(fb[1], fb[2], rand) = "none")
                => (r.ret = "none" /\ r.st[i] = 2)

====
